---- MODULE Spec2Model ----
(***************************************************************************)
(* Model of logs_analyzer_dashboard.py: the upload pre-processing of main  *)
(* (the "Normalizer"), process_data (the "Interval & Summary Engine") and  *)
(* the main content main renders over the two tables of the session.       *)
(*                                                                         *)
(* Instants and durations are integers counted in ticks; TicksPerSec ticks *)
(* make one second.  A parsed 'Record Time' is a whole number of seconds   *)
(* (the log format is DD-MM-YYYY HH:MM:SS) and is timezone-naive; a clock  *)
(* reading (pd.Timestamp.now(tz=...), get_ghana_time()) may fall between   *)
(* two seconds and is timezone-aware.  Africa/Accra is UTC+0, so           *)
(* tz_localize(None) keeps the number and drops the zone.                  *)
(***************************************************************************)
EXTENDS Integers, Sequences, FiniteSets, TLC

\* ---------------------------------------------------------------- bounds
\* rows of the uploaded file
MaxRows == 3
\* resolution of the clock
TicksPerSec == 2

\* ------------------------------------------------------ program constants
SecsPerDay == 86400
SecsPerHour == 3600
SecsPerMinute == 60

\* pd.NaT (a 'Record Time' that errors='coerce' could not parse, a missing
\* next_time) and np.nan (a missing Downtime_Seconds)
NaT == -1
NaN == -1000000000

Sec(n) == n * TicksPerSec
OneDay == Sec(SecsPerDay)

Min(S) == CHOOSE x \in S : \A y \in S : x <= y
Max(S) == CHOOSE x \in S : \A y \in S : x >= y

\* ----------------------------------------------------------- input sample
DeviceOrder == <<"D1", "D2">>
Devices == {DeviceOrder[i] : i \in 1..Len(DeviceOrder)}
DevIndex(d) == CHOOSE i \in 1..Len(DeviceOrder) : DeviceOrder[i] = d

\* The 'Type' column is free text; what the program looks at is which of
\* three substrings it contains.
EncOnline  == [encoding |-> TRUE,  online |-> TRUE,  offline |-> FALSE]
EncOffline == [encoding |-> TRUE,  online |-> FALSE, offline |-> TRUE]
EncOther   == [encoding |-> TRUE,  online |-> FALSE, offline |-> FALSE]
NotEnc     == [encoding |-> FALSE, online |-> TRUE,  offline |-> FALSE]

\* The 'Record Time' column is text: a well-formed time, or junk.
At(s) == [ok |-> TRUE, secs |-> s]
Junk == [ok |-> FALSE, secs |-> 0]
\* The times of day of the first device: midnight, and an odd second, so
\* that a duration up to a clock reading between two seconds is rounded up
\* for one and down for the other.
StepSecs == {0, 301}
RawSecs == StepSecs \cup {SecsPerDay}

\* Rows a file may hold: online/offline rows of both devices, and for the
\* first device also rows with a junk time, a type that is neither online
\* nor offline, and a type without "encoding".
RawRows ==
    [dev : {"D1"}, rt : {At(s) : s \in RawSecs}, type : {EncOnline, EncOffline}]
    \cup {[dev |-> "D2", rt |-> At(0), type |-> EncOffline],
          [dev |-> "D2", rt |-> At(300), type |-> EncOffline],
          [dev |-> "D2", rt |-> At(300), type |-> EncOnline]}
    \cup [dev : {"D1"}, rt : {Junk}, type : {EncOffline}]
    \cup [dev : {"D1"}, rt : {At(300)}, type : {EncOther, NotEnc}]

RECURSIVE SeqsUpTo(_, _)
SeqsUpTo(S, n) ==
    IF n = 0 THEN {<<>>}
    ELSE LET shorter == SeqsUpTo(S, n - 1)
         IN  shorter \cup {Append(s, x) : s \in {t \in shorter : Len(t) = n - 1}, x \in S}

Files == SeqsUpTo(RawRows, MaxRows)

\* Dates the two date inputs can give (midnights), the device lists the
\* multiselect can give, and the readings of the clock.
Dates == {0, OneDay}
DeviceLists == SUBSET Devices
\* The clock stands between two seconds at the first reading and advances by
\* the drift, in ticks, from one reading of an invocation to the next.
ClockStart == 2 * OneDay + 1
Drifts == {0, 1}

\* ------------------------------------------------------------- DataFrames
EmptyFrame == [columns |-> <<>>, rows |-> <<>>]
IsEmpty(frame) == frame.rows = <<>>

SummaryColumns ==
    <<"Device", "Total_Events", "First_Offline", "Last_Offline", "Last_Online",
      "Total_Downtime_Seconds", "Ongoing_Count", "Current_Downtime_Seconds",
      "Current_Downtime_Duration", "Total_Downtime_Duration", "Current_Status",
      "Uptime_Percentage", "MTBF_Hours">>
DisplayColumns ==
    <<"Device", "Offline_Time", "Online_Time", "Downtime_Duration", "Downtime_Status">>

\* --------------------------------------------------------------- helpers
\* round(0): to the nearest whole second, a half to the even one
Round0(ticks) ==
    LET q == ticks \div TicksPerSec
        r == ticks % TicksPerSec
    IN  IF 2 * r < TicksPerSec THEN q
        ELSE IF 2 * r > TicksPerSec THEN q + 1
        ELSE IF q % 2 = 0 THEN q ELSE q + 1

\* int(seconds): towards zero
IntSecs(ticks) ==
    IF ticks >= 0 THEN ticks \div TicksPerSec ELSE 0 - ((0 - ticks) \div TicksPerSec)

\* The text format_duration builds, as the numbers it prints.
format_duration(ticks) ==
    IF ticks = NaN THEN <<>>
    ELSE LET seconds == IntSecs(ticks)
             days    == seconds \div SecsPerDay
             hours   == (seconds % SecsPerDay) \div SecsPerHour
             minutes == (seconds % SecsPerHour) \div SecsPerMinute
             secs    == seconds % SecsPerMinute
         IN  IF days > 0 THEN <<days, hours, minutes, secs>>
             ELSE <<hours, minutes, secs>>

\* Timestamp - Timestamp: pandas raises TypeError when exactly one operand
\* carries a timezone.
SubtractionRaises(leftAware, rightAware) == leftAware # rightAware

\* ------------------------------------------------------------ Normalizer
ParseRecordTime(rt) == IF rt.ok THEN Sec(rt.secs) ELSE NaT

InferStatus(type) ==
    IF type.offline THEN "offline"
    ELSE IF type.online THEN "online"
    ELSE "unknown"

TimeLess(x, y) == x # NaT /\ (y = NaT \/ x < y)
RowLess(a, b) ==
    \/ DevIndex(a.dev) < DevIndex(b.dev)
    \/ a.dev = b.dev /\ TimeLess(a.time, b.time)
RowKeyEq(a, b) == a.dev = b.dev /\ a.time = b.time

\* sort_values(by=['Device Name', 'Record Time']): NaT last, ties in input order
SortValues(s) ==
    LET rank(i) == 1 + Cardinality({j \in 1..Len(s) :
                        RowLess(s[j], s[i]) \/ (RowKeyEq(s[j], s[i]) /\ j < i)})
    IN  [k \in 1..Len(s) |-> s[CHOOSE i \in 1..Len(s) : rank(i) = k]]

Normalize(file) ==
    LET parsed == [i \in 1..Len(file) |->
                     [dev |-> file[i].dev, time |-> ParseRecordTime(file[i].rt),
                      type |-> file[i].type]]
        encoding == SelectSeq(parsed, LAMBDA r : r.type.encoding)
        events == [i \in 1..Len(encoding) |->
                     [dev |-> encoding[i].dev, time |-> encoding[i].time,
                      status |-> InferStatus(encoding[i].type)]]
    IN  SortValues(events)

\* df['Record Time'].min().date() and .max().date(); NaT when no time parsed
DateOf(t) == (t \div OneDay) * OneDay
ValidTimes(events) == {events[i].time : i \in 1..Len(events)} \ {NaT}
MinDate(events) == IF ValidTimes(events) = {} THEN NaT ELSE DateOf(Min(ValidTimes(events)))
MaxDate(events) == IF ValidTimes(events) = {} THEN NaT ELSE DateOf(Max(ValidTimes(events)))

\* ---------------------------------------------------------- process_data
\* "Filter by date range": both dates are Timestamps (or NaT), which are
\* truthy, so the filter always applies; a comparison with NaT is False.
DateFilter(events, start, end) ==
    SelectSeq(events, LAMBDA r :
        /\ r.time # NaT /\ start # NaT /\ end # NaT
        /\ r.time >= start
        /\ r.time <= end + OneDay)

\* DeviceFilter without its test for an empty list: no device is in an empty
\* list, so every event goes.
DeviceFilterUntested(events, selected) ==
    SelectSeq(events, LAMBDA r : r.dev \in selected)

\* "Filter by selected devices": an empty list selects nothing out.
DeviceFilter(events, selected) ==
    IF selected # {}
    THEN SelectSeq(events, LAMBDA r : r.dev \in selected)
    ELSE events

\* groupby('Device Name').shift(-1) and .shift(1): the row's neighbours among
\* the rows of its own device, 0 when there is none.
NextIdx(events, i) ==
    LET later == {j \in (i + 1)..Len(events) : events[j].dev = events[i].dev}
    IN  IF later = {} THEN 0 ELSE Min(later)
PrevIdx(events, i) ==
    LET earlier == {j \in 1..(i - 1) : events[j].dev = events[i].dev}
    IN  IF earlier = {} THEN 0 ELSE Max(earlier)

next_status(events, i) ==
    IF NextIdx(events, i) = 0 THEN "NaN" ELSE events[NextIdx(events, i)].status
next_time(events, i) ==
    IF NextIdx(events, i) = 0 THEN NaT ELSE events[NextIdx(events, i)].time
prev_status(events, i) ==
    IF PrevIdx(events, i) = 0 THEN "NaN" ELSE events[PrevIdx(events, i)].status

\* the two np.where of the interval pass
FirstSeconds(events, i) ==
    IF next_status(events, i) = "online"
    THEN next_time(events, i) - events[i].time
    ELSE NaN
FirstStatus(events, i) ==
    IF next_status(events, i) = "online" THEN "Completed"
    ELSE IF prev_status(events, i) = "online" THEN "Ongoing"
    ELSE "Intermediate"

\* df_downtime as first built: one row for each offline event
IntervalPass(events) ==
    LET offline == SelectSeq([i \in 1..Len(events) |-> i],
                             LAMBDA i : events[i].status = "offline")
    IN  [k \in 1..Len(offline) |->
           [Device           |-> events[offline[k]].dev,
            Offline_Time     |-> events[offline[k]].time,
            Online_Time      |-> next_time(events, offline[k]),
            Downtime_Seconds |-> FirstSeconds(events, offline[k]),
            Downtime_Status  |-> FirstStatus(events, offline[k])]]

\* FixStatus without the fix: the status of the interval pass stays.
FixStatusSkipped(row) == row.Downtime_Status

\* "Fix misclassified records"
FixStatus(row) ==
    IF row.Online_Time # NaT /\ row.Downtime_Status = "Ongoing"
    THEN "Completed"
    ELSE row.Downtime_Status
FixMisclassified(rows) ==
    [k \in 1..Len(rows) |-> [rows[k] EXCEPT !.Downtime_Status = FixStatus(rows[k])]]

\* recalculate_downtime(row); current_time is stripped of its zone before
\* the subtraction, Offline_Time never had one.
recalculate_downtime(row, current_time) ==
    IF row.Downtime_Status = "Completed"
    THEN (IF row.Downtime_Seconds # NaN THEN row.Downtime_Seconds ELSE 0)
    ELSE IF row.Online_Time # NaT
    THEN row.Online_Time - row.Offline_Time
    ELSE IF SubtractionRaises(FALSE, FALSE) THEN 0
    ELSE current_time - row.Offline_Time

Recalculate(rows, current_time) ==
    [k \in 1..Len(rows) |->
       [rows[k] EXCEPT !.Downtime_Seconds = recalculate_downtime(rows[k], current_time)]]

\* df_downtime when the summary is built
Intervals(events, current_time) ==
    Recalculate(FixMisclassified(IntervalPass(events)), current_time)

\* groupby('Device').agg(...): one row for each device with an interval, in
\* the order of the device names; 'last' of Online_Time skips NaT.
RowsOf(rows, d) == SelectSeq(rows, LAMBDA r : r.Device = d)
RECURSIVE SumSeconds(_)
SumSeconds(rows) ==
    IF rows = <<>> THEN 0 ELSE rows[1].Downtime_Seconds + SumSeconds(Tail(rows))
LastOnline(rows) ==
    LET set == {k \in 1..Len(rows) : rows[k].Online_Time # NaT}
    IN  IF set = {} THEN NaT ELSE rows[Max(set)].Online_Time
OngoingCount(rows) ==
    Cardinality({k \in 1..Len(rows) : rows[k].Downtime_Status = "Ongoing"})

\* calculate_current_downtime(row), rounded
calculate_current_downtime(ongoing_count, last_offline, analysis_time) ==
    IF ongoing_count > 0
    THEN (IF SubtractionRaises(FALSE, FALSE) THEN 0
          ELSE Round0(analysis_time - last_offline))
    ELSE 0

SummaryRow(rows, d, analysis_time) ==
    LET mine == RowsOf(rows, d)
    IN  [Device                   |-> d,
         Total_Events             |-> Len(mine),
         First_Offline            |-> mine[1].Offline_Time,
         Last_Offline             |-> mine[Len(mine)].Offline_Time,
         Last_Online              |-> LastOnline(mine),
         Total_Downtime_Seconds   |-> Round0(SumSeconds(mine)),
         Ongoing_Count            |-> OngoingCount(mine),
         Current_Downtime_Seconds |->
             calculate_current_downtime(OngoingCount(mine),
                                        mine[Len(mine)].Offline_Time, analysis_time)]

Summarize(rows, analysis_time) ==
    LET present == SelectSeq(DeviceOrder, LAMBDA d : RowsOf(rows, d) # <<>>)
    IN  [k \in 1..Len(present) |-> SummaryRow(rows, present[k], analysis_time)]

\* The total period taken with the zone of analysis_time stripped, as the
\* two other subtractions from a clock reading are.
TotalPeriodLocalized == SubtractionRaises(FALSE, FALSE)

\* "Calculate uptime percentage": analysis_time carries a zone and
\* First_Offline.min() carries none.
TotalPeriodRaises == SubtractionRaises(TRUE, FALSE)

\* A quotient rounded to the nearest whole number, a half to the even one:
\* what round(2) does to a value counted in hundredths.
RoundDiv(num, den) ==
    LET n == IF den < 0 THEN 0 - num ELSE num
        d == IF den < 0 THEN 0 - den ELSE den
        q == n \div d
        r == n % d
    IN  IF 2 * r < d THEN q
        ELSE IF 2 * r > d THEN q + 1
        ELSE IF q % 2 = 0 THEN q ELSE q + 1

\* total_period_seconds, in ticks: analysis_time - First_Offline.min()
total_period_seconds(agg, analysis_time) ==
    analysis_time - Min({agg[k].First_Offline : k \in 1..Len(agg)})

\* calculate_uptime_percentage(downtime_seconds, total_seconds).round(2), in
\* hundredths of a percent; the total period comes in ticks.  The quotient
\* is taken in two steps, whole percents first, to stay within 32 bits.
calculate_uptime_percentage(downtime_seconds, total_period) ==
    IF total_period = 0 THEN 100 * 100
    ELSE LET uptime  == total_period - Sec(downtime_seconds)
             percent == (uptime * 100) \div total_period
             rest    == (uptime * 100) % total_period
         IN  percent * 100 + RoundDiv(rest * 100, total_period)

\* MTBF_Hours, in hundredths of an hour: np.where picks 0 for a device with
\* one event, whatever the division by Total_Events - 1 gave.
MTBF_Hours(total_events, downtime_seconds, total_period) ==
    IF total_events > 1
    THEN RoundDiv((total_period - Sec(downtime_seconds)) * 100,
                  Sec(SecsPerHour) * (total_events - 1))
    ELSE 0

\* The summary as returned: the aggregated rows with the columns of lines
\* 212-228.
Current_Status(ongoing_count) == IF ongoing_count > 0 THEN "Offline" ELSE "Online"
ReturnedSummary(agg, analysis_time) ==
    [k \in 1..Len(agg) |->
       [Device                    |-> agg[k].Device,
        Total_Events              |-> agg[k].Total_Events,
        First_Offline             |-> agg[k].First_Offline,
        Last_Offline              |-> agg[k].Last_Offline,
        Last_Online               |-> agg[k].Last_Online,
        Total_Downtime_Seconds    |-> agg[k].Total_Downtime_Seconds,
        Ongoing_Count             |-> agg[k].Ongoing_Count,
        Current_Downtime_Seconds  |-> agg[k].Current_Downtime_Seconds,
        Current_Downtime_Duration |-> format_duration(Sec(agg[k].Current_Downtime_Seconds)),
        Total_Downtime_Duration   |-> format_duration(Sec(agg[k].Total_Downtime_Seconds)),
        Current_Status            |-> Current_Status(agg[k].Ongoing_Count),
        Uptime_Percentage         |->
            calculate_uptime_percentage(agg[k].Total_Downtime_Seconds,
                                        total_period_seconds(agg, analysis_time)),
        MTBF_Hours                |->
            MTBF_Hours(agg[k].Total_Events, agg[k].Total_Downtime_Seconds,
                       total_period_seconds(agg, analysis_time))]]

\* "Format downtime status" and the columns of df_downtime_display
DisplayStatus(status) == IF status = "Ongoing" THEN "Ongoing" ELSE "Completed"
DisplayRows(rows) ==
    [k \in 1..Len(rows) |->
       [Device            |-> rows[k].Device,
        Offline_Time      |-> rows[k].Offline_Time,
        Online_Time       |-> rows[k].Online_Time,
        Downtime_Duration |-> format_duration(rows[k].Downtime_Seconds),
        Downtime_Status   |-> DisplayStatus(rows[k].Downtime_Status)]]

\* One invocation of process_data.  r1, r2, r3 are the successive readings of
\* the clock, of which a run takes only as many as its path needs.  The
\* result records the three values returned (summary, downtime, time), the
\* way out (exit) and the locals the run built on the way.
NoCall ==
    [exit |-> "none", start_date |-> NaT, end_date |-> NaT, selected_devices |-> {},
     events |-> <<>>, current_time |-> NaT, analysis_time |-> NaT,
     df_downtime |-> <<>>, agg |-> <<>>,
     summary |-> EmptyFrame, downtime |-> EmptyFrame, time |-> NaT]

\* process_data with an except that hands back the summary the try had
\* built when the step failed, next to an empty interval table.
process_dataPartial(events, start, end, selected, r1, r2, r3) ==
    LET filtered == DeviceFilter(DateFilter(events, start, end), selected)
        called == [NoCall EXCEPT !.start_date = start, !.end_date = end,
                                 !.selected_devices = selected,
                                 !.events = filtered]
        rows == Intervals(filtered, r1)
        agg == Summarize(rows, r2)
    IN  IF filtered = <<>>
        THEN [called EXCEPT !.exit = "empty", !.time = r1]
        ELSE IF IntervalPass(filtered) = <<>>
        THEN [called EXCEPT !.exit = "no_offline", !.current_time = r1, !.time = r1]
        ELSE IF TotalPeriodRaises
        THEN [called EXCEPT !.exit = "error", !.current_time = r1, !.analysis_time = r2,
                            !.df_downtime = rows, !.agg = agg,
                            !.summary = [columns |-> SummaryColumns, rows |-> agg],
                            !.time = r3]
        ELSE [called EXCEPT !.exit = "return", !.current_time = r1, !.analysis_time = r2,
                            !.df_downtime = rows, !.agg = agg,
                            !.summary = [columns |-> SummaryColumns, rows |-> ReturnedSummary(agg, r2)],
                            !.downtime = [columns |-> DisplayColumns, rows |-> DisplayRows(rows)],
                            !.time = r2]

process_data(events, start, end, selected, r1, r2, r3) ==
    LET filtered == DeviceFilter(DateFilter(events, start, end), selected)
        called == [NoCall EXCEPT !.start_date = start, !.end_date = end,
                                 !.selected_devices = selected,
                                 !.events = filtered]
        rows == Intervals(filtered, r1)
        agg == Summarize(rows, r2)
    IN  IF filtered = <<>>
        THEN [called EXCEPT !.exit = "empty", !.time = r1]
        ELSE IF IntervalPass(filtered) = <<>>
        THEN [called EXCEPT !.exit = "no_offline", !.current_time = r1, !.time = r1]
        ELSE IF TotalPeriodRaises
        THEN [called EXCEPT !.exit = "error", !.current_time = r1, !.analysis_time = r2,
                            !.df_downtime = rows, !.agg = agg, !.time = r3]
        ELSE [called EXCEPT !.exit = "return", !.current_time = r1, !.analysis_time = r2,
                            !.df_downtime = rows, !.agg = agg,
                            !.summary = [columns |-> SummaryColumns, rows |-> ReturnedSummary(agg, r2)],
                            !.downtime = [columns |-> DisplayColumns, rows |-> DisplayRows(rows)],
                            !.time = r2]

\* The subtractions of one instant from another that a run takes, each with
\* the line it stands on and whether its left and its right operand carry a
\* timezone.  A 'Record Time' and what derives from it (Offline_Time,
\* Online_Time, First_Offline, Last_Offline) carries none; a reading of the
\* clock carries one until tz_localize(None) strips it.
Subtraction(line, leftAware, rightAware) ==
    [line |-> line, left |-> leftAware, right |-> rightAware]
Subtractions(c) ==
    (IF c.exit \in {"no_offline", "error", "return"}
     THEN {Subtraction(129, FALSE, FALSE)} ELSE {})
    \cup {Subtraction(155, FALSE, FALSE) : k \in {j \in 1..Len(c.df_downtime) :
             /\ c.df_downtime[j].Downtime_Status # "Completed"
             /\ c.df_downtime[j].Online_Time # NaT}}
    \cup {Subtraction(160, FALSE, FALSE) : k \in {j \in 1..Len(c.df_downtime) :
             /\ c.df_downtime[j].Downtime_Status # "Completed"
             /\ c.df_downtime[j].Online_Time = NaT}}
    \cup {Subtraction(202, FALSE, FALSE) : k \in {j \in 1..Len(c.agg) :
             c.agg[j].Ongoing_Count > 0}}
    \cup (IF c.exit \in {"error", "return"}
          THEN {Subtraction(217, TRUE, FALSE)} ELSE {})

\* ----------------------------------------------------------- main content
\* create_downtime_trend_chart(downtime_df), as the table it leaves behind:
\* downtime_df['Date'] = ... writes a column into the table it was handed.
WithDate(row) ==
    [f \in DOMAIN row \cup {"Date"} |->
       IF f = "Date" THEN DateOf(row.Offline_Time) ELSE row[f]]
create_downtime_trend_chart(downtime_df) ==
    IF IsEmpty(downtime_df) THEN downtime_df
    ELSE [columns |-> IF \E i \in 1..Len(downtime_df.columns) : downtime_df.columns[i] = "Date"
                      THEN downtime_df.columns
                      ELSE Append(downtime_df.columns, "Date"),
          rows    |-> [k \in 1..Len(downtime_df.rows) |-> WithDate(downtime_df.rows[k])]]

\* What the main content of a run of the script shows: the welcome text
\* before anything was processed, the "No data found" warning when both
\* tables are empty, the dashboard otherwise.
Page(is_processed, summary_df, downtime_df) ==
    IF ~is_processed THEN "welcome"
    ELSE IF IsEmpty(summary_df) /\ IsEmpty(downtime_df) THEN "warning"
    ELSE "dashboard"

\* The interval table of the session after the main content was rendered:
\* the dashboard makes the trend chart of it when neither table is empty;
\* the tables it filters, sorts and exports are copies.
Rendered(is_processed, summary_df, downtime_df) ==
    IF /\ Page(is_processed, summary_df, downtime_df) = "dashboard"
       /\ ~IsEmpty(summary_df) /\ ~IsEmpty(downtime_df)
    THEN create_downtime_trend_chart(downtime_df)
    ELSE downtime_df

\* ------------------------------------------------------------------ state
VARIABLES
    file,              \* the rows of the uploaded CSV file
    start_date,        \* the value of the "Start Date" input
    end_date,          \* the value of the "End Date" input
    selected_devices,  \* the value of the "Select Devices" multiselect
    data_loaded,       \* st.session_state.data_loaded
    df,                \* st.session_state.df: what the Normalizer stored
    processed,         \* st.session_state.processed
    summary,           \* st.session_state.summary
    downtime,          \* st.session_state.downtime
    analysis_time,     \* st.session_state.analysis_time
    call,              \* the last invocation of process_data
    page               \* what the main content of the last run of the script showed

inputs == <<file, start_date, end_date, selected_devices>>
vars == <<file, start_date, end_date, selected_devices, data_loaded, df, processed,
          summary, downtime, analysis_time, call, page>>

\* The file and the settings of the three filter inputs are the user's and
\* stay as they are through a behaviour: process_data reads nothing that an
\* earlier invocation wrote, so an application with other settings is the
\* application of another behaviour.
Init ==
    /\ file \in Files
    /\ start_date \in Dates
    /\ end_date \in Dates
    /\ selected_devices \in DeviceLists
    /\ data_loaded = FALSE
    /\ df = <<>>
    /\ processed = FALSE
    /\ summary = EmptyFrame
    /\ downtime = EmptyFrame
    /\ analysis_time = NaT
    /\ call = NoCall
    /\ page = "welcome"

\* main, "if uploaded_file is not None and not st.session_state.data_loaded":
\* pre-process the file, store it, and run process_data over its whole span;
\* the run of the script then goes on to the main content.
Upload ==
    /\ ~data_loaded
    /\ \E drift \in Drifts :
         /\ df' = Normalize(file)
         /\ data_loaded' = TRUE
         /\ call' = process_data(df', MinDate(df'), MaxDate(df'), {},
                                 ClockStart, ClockStart + drift, ClockStart + 2 * drift)
         /\ summary' = call'.summary
         /\ downtime' = Rendered(TRUE, call'.summary, call'.downtime)
         /\ analysis_time' = call'.time
         /\ processed' = TRUE
         /\ page' = Page(TRUE, call'.summary, call'.downtime)
    /\ UNCHANGED inputs

\* main, the "Apply Filters" button, and the main content after it
ApplyFilters ==
    /\ data_loaded
    /\ \E drift \in Drifts :
         /\ call' = process_data(df, start_date, end_date, selected_devices,
                                 ClockStart, ClockStart + drift, ClockStart + 2 * drift)
         /\ summary' = call'.summary
         /\ downtime' = Rendered(processed, call'.summary, call'.downtime)
         /\ analysis_time' = call'.time
         /\ page' = Page(processed, call'.summary, call'.downtime)
    /\ UNCHANGED <<inputs, data_loaded, df, processed>>

\* main, the "Clear All" button: every key of the session state is deleted
\* and the script runs again from the top.
ClearAll ==
    /\ data_loaded
    /\ data_loaded' = FALSE
    /\ df' = <<>>
    /\ processed' = FALSE
    /\ summary' = EmptyFrame
    /\ downtime' = EmptyFrame
    /\ analysis_time' = NaT
    /\ call' = NoCall
    /\ page' = "welcome"
    /\ UNCHANGED inputs

\* main, a run of the script that no button and no upload started (another
\* widget was touched): the main content is rendered over the tables of the
\* session.
Rerun ==
    /\ downtime' = Rendered(processed, summary, downtime)
    /\ page' = Page(processed, summary, downtime)
    /\ UNCHANGED <<inputs, data_loaded, df, processed, summary, analysis_time, call>>

Next == Upload \/ ApplyFilters \/ ClearAll \/ Rerun

Spec == Init /\ [][Next]_vars

\* ================================================================ claims
Ran == call.exit # "none"
EventsOf(events, d) == SelectSeq(events, LAMBDA r : r.dev = d)
IntervalsOf(rows, d) == SelectSeq(rows, LAMBDA r : r.Device = d)
StatusesOf(events, d) ==
    [i \in 1..Len(EventsOf(events, d)) |-> EventsOf(events, d)[i].status]

\* C1: every in-range offline event that is directly followed, for its
\* device, by an online event has a row in the interval table process_data
\* returns, with status Completed and the duration of exactly
\* (online timestamp - offline timestamp).
C1_CompletedWithExactDelta ==
    Ran =>
      \A i \in 1..Len(call.events) :
        (call.events[i].status = "offline" /\ next_status(call.events, i) = "online")
        => \E k \in 1..Len(call.downtime.rows) :
             /\ call.downtime.rows[k].Device = call.events[i].dev
             /\ call.downtime.rows[k].Offline_Time = call.events[i].time
             /\ call.downtime.rows[k].Downtime_Status = "Completed"
             /\ call.downtime.rows[k].Downtime_Duration =
                  format_duration(next_time(call.events, i) - call.events[i].time)

\* C2: a device whose last in-range event is offline has exactly one Ongoing
\* interval in the interval table process_data builds, that of its last
\* event, with the duration reference time - offline time.
C2_LastOfflineIsOngoing ==
    Ran =>
      \A d \in Devices :
        LET mine == EventsOf(call.events, d)
            open == {k \in 1..Len(call.df_downtime) :
                       /\ call.df_downtime[k].Device = d
                       /\ call.df_downtime[k].Downtime_Status = "Ongoing"}
        IN  (mine # <<>> /\ mine[Len(mine)].status = "offline")
            => /\ Cardinality(open) = 1
               /\ \A k \in open :
                    /\ call.df_downtime[k].Offline_Time = mine[Len(mine)].time
                    /\ call.df_downtime[k].Downtime_Seconds =
                         call.current_time - mine[Len(mine)].time

\* C3: in the summary process_data builds, every device that is currently
\* down (Ongoing_Count > 0) has a total downtime of at least its current
\* downtime, whatever the two readings of the clock are.
C3_TotalAtLeastCurrent ==
    Ran =>
      \A k \in 1..Len(call.agg) :
        call.agg[k].Ongoing_Count > 0
        => call.agg[k].Total_Downtime_Seconds >= call.agg[k].Current_Downtime_Seconds

\* C5: a device whose in-range events are one offline event and then one
\* online event has, in the tables process_data returns, one Completed
\* interval and a summary row that is not currently down and whose total
\* downtime is (online timestamp - offline timestamp).
C5_OffThenOnScenario ==
    Ran =>
      \A d \in Devices :
        StatusesOf(call.events, d) = <<"offline", "online">>
        => LET mine == EventsOf(call.events, d)
               shown == IntervalsOf(call.downtime.rows, d)
               rolled == IntervalsOf(call.summary.rows, d)
           IN  /\ Len(shown) = 1
               /\ shown[1].Downtime_Status = "Completed"
               /\ Len(rolled) = 1
               /\ rolled[1].Ongoing_Count = 0
               /\ rolled[1].Total_Downtime_Seconds = Round0(mine[2].time - mine[1].time)

\* C6: a device whose in-range events are offline, offline, online has, in
\* the interval table process_data builds, an Intermediate interval of
\* duration 0 for the first offline event, a Completed interval of duration
\* (online timestamp - second offline timestamp) for the second, and no
\* Ongoing interval.
C6_OffOffOnScenario ==
    Ran =>
      \A d \in Devices :
        StatusesOf(call.events, d) = <<"offline", "offline", "online">>
        => LET mine == EventsOf(call.events, d)
               rows == IntervalsOf(call.df_downtime, d)
           IN  /\ Len(rows) = 2
               /\ rows[1].Downtime_Status = "Intermediate"
               /\ rows[1].Downtime_Seconds = 0
               /\ rows[2].Downtime_Status = "Completed"
               /\ rows[2].Downtime_Seconds = mine[3].time - mine[2].time
               /\ \A k \in 1..2 : rows[k].Downtime_Status # "Ongoing"

\* The range of the claims: start <= t < end + 1 day.
ClaimInRange(t, start, end) ==
    t # NaT /\ start # NaT /\ end # NaT /\ start <= t /\ t < end + OneDay
NothingToProcess ==
    \/ df = <<>>
    \/ \A i \in 1..Len(df) : ~ClaimInRange(df[i].time, call.start_date, call.end_date)
    \/ /\ call.selected_devices # {}
       /\ \A i \in 1..Len(df) : df[i].dev \notin call.selected_devices

\* C7: when there is no event, no event in the date range or no event of a
\* listed device, process_data returns two empty tables (every way out of
\* process_data is a return); and with an empty device list the in-range
\* events of every device reach the interval pass.
C7_EmptyInputEmptyTables ==
    Ran =>
      /\ NothingToProcess =>
           /\ IsEmpty(call.summary) /\ IsEmpty(call.downtime)
           /\ IsEmpty(summary) /\ IsEmpty(downtime)
      /\ call.selected_devices = {} =>
           \A i \in 1..Len(df) :
             ClaimInRange(df[i].time, call.start_date, call.end_date)
             => \E j \in 1..Len(call.events) : call.events[j] = df[i]

\* C7 witness: a listed device without events, and an empty list that let
\* the events of two devices through.
C7_Witness_NoListedDevice ==
    /\ Ran /\ df # <<>>
    /\ call.selected_devices # {}
    /\ \A i \in 1..Len(df) : df[i].dev \notin call.selected_devices
    /\ \E i \in 1..Len(df) : ClaimInRange(df[i].time, call.start_date, call.end_date)
    /\ call.exit = "empty"

\* C8: every still-open duration of one invocation, per interval and per
\* device, is measured against the instant the invocation returns.
C8_OneReferenceInstant ==
    Ran =>
      /\ \A k \in 1..Len(call.df_downtime) :
           call.df_downtime[k].Online_Time = NaT
           => call.df_downtime[k].Downtime_Seconds =
                call.time - call.df_downtime[k].Offline_Time
      /\ \A k \in 1..Len(call.agg) :
           call.agg[k].Ongoing_Count > 0
           => call.agg[k].Current_Downtime_Seconds =
                Round0(call.time - call.agg[k].Last_Offline)

\* The file without the rows whose time does not parse, and the events
\* without those of unknown status.
ParsableRows(rows) == SelectSeq(rows, LAMBDA r : r.rt.ok)
KnownEvents(events) == SelectSeq(events, LAMBDA r : r.status # "unknown")

\* C9: no row of the table the Normalizer stores has an unparsed time, and
\* the intervals are those of the file without the unparsable rows.
C9_UnparsableRowsDropped ==
    /\ data_loaded => \A i \in 1..Len(df) : df[i].time # NaT
    /\ (Ran /\ call.exit # "empty") =>
         call.df_downtime =
           Intervals(DeviceFilter(DateFilter(Normalize(ParsableRows(file)),
                                             call.start_date, call.end_date),
                                  call.selected_devices),
                     call.current_time)

\* C10: no event of unknown status is among the events of the interval pass,
\* and the intervals are those of the events without the unknown ones.
C10_UnknownNeverReachesEngine ==
    Ran =>
      /\ \A i \in 1..Len(call.events) : call.events[i].status # "unknown"
      /\ call.exit \in {"error", "return"} =>
           call.df_downtime = Intervals(KnownEvents(call.events), call.current_time)

\* The events a run with the range [start, end + 1 day) and the device list
\* of the invocation has to work on.
ClaimEvents(start, end) ==
    LET ranged == SelectSeq(df, LAMBDA r : ClaimInRange(r.time, start, end))
    IN  IF call.selected_devices # {}
        THEN SelectSeq(ranged, LAMBDA r : r.dev \in call.selected_devices)
        ELSE ranged

\* C11: the events that pass the date filter of process_data are exactly
\* those with start <= t < end + 1 day; an event at 00:00:00 of the day
\* after the end date is not among them.
C11_HalfOpenDateRange ==
    Ran => call.events = ClaimEvents(call.start_date, call.end_date)

\* C12: a run of process_data with a start date later than the end date
\* works on the events of the call with the two dates in the right order and
\* returns the tables of that call.
C12_SwappedDates ==
    (Ran /\ call.start_date # NaT /\ call.end_date # NaT
         /\ call.start_date > call.end_date)
    => LET ordered == process_data(df, call.end_date, call.start_date,
                                   call.selected_devices,
                                   call.time, call.time, call.time)
       IN  /\ call.events = ordered.events
           /\ call.summary = ordered.summary
           /\ call.downtime = ordered.downtime

\* C13: in the interval table after the pass that fixes misclassified
\* records, every interval with an Online_Time has the status Completed,
\* whether the interval pass had made it Ongoing or Intermediate.
C13_ResolvedIsCompleted ==
    Ran =>
      \A k \in 1..Len(call.df_downtime) :
        call.df_downtime[k].Online_Time # NaT
        => call.df_downtime[k].Downtime_Status = "Completed"

\* C14: every interval that is Completed when process_data ends, the ones
\* the fixing pass made Completed included, has an Online_Time and the
\* duration Online_Time - Offline_Time.
C14_CompletedHasExactDuration ==
    Ran =>
      \A k \in 1..Len(call.df_downtime) :
        call.df_downtime[k].Downtime_Status = "Completed"
        => /\ call.df_downtime[k].Online_Time # NaT
           /\ call.df_downtime[k].Downtime_Seconds =
                call.df_downtime[k].Online_Time - call.df_downtime[k].Offline_Time

\* The in-range online events of a device, as the set of their timestamps.
OnlineTimes(d) ==
    {call.events[i].time : i \in {j \in 1..Len(call.events) :
        call.events[j].dev = d /\ call.events[j].status = "online"}}

\* C15: the Online_Time of an interval is missing or is the timestamp of an
\* online event of the same device, not earlier than the Offline_Time; and
\* the Last_Online of a summary row is missing or is the timestamp of an
\* online event of the device.
C15_OnlineTimeIsOnlineEvent ==
    Ran =>
      /\ \A k \in 1..Len(call.df_downtime) :
           \/ call.df_downtime[k].Online_Time = NaT
           \/ /\ call.df_downtime[k].Online_Time \in OnlineTimes(call.df_downtime[k].Device)
              /\ call.df_downtime[k].Online_Time >= call.df_downtime[k].Offline_Time
      /\ \A k \in 1..Len(call.agg) :
           \/ call.agg[k].Last_Online = NaT
           \/ call.agg[k].Last_Online \in OnlineTimes(call.agg[k].Device)

\* C16: no subtraction of two instants that a run of process_data takes has
\* one operand with a timezone and one without: not for the durations of the
\* intervals, not for the current downtime, not for the total period.
C16_NoMixedSubtraction ==
    Ran => \A s \in Subtractions(call) : s.left = s.right

\* C17: every interval that process_data classified Intermediate has its
\* row in the interval table process_data returns, with a status there that
\* is neither Ongoing nor Completed.
C17_IntermediateKeepsItsTag ==
    Ran =>
      \A k \in 1..Len(call.df_downtime) :
        call.df_downtime[k].Downtime_Status = "Intermediate"
        => /\ k <= Len(call.downtime.rows)
           /\ call.downtime.rows[k].Device = call.df_downtime[k].Device
           /\ call.downtime.rows[k].Offline_Time = call.df_downtime[k].Offline_Time
           /\ call.downtime.rows[k].Downtime_Status \notin {"Ongoing", "Completed"}

\* The places of the Ongoing intervals of a device in the interval table.
OngoingOf(d) ==
    {k \in 1..Len(call.df_downtime) :
       call.df_downtime[k].Device = d /\ call.df_downtime[k].Downtime_Status = "Ongoing"}

\* C18: an interval that is Ongoing when process_data ends has no
\* Online_Time and is that of the last in-range event of its device; a
\* device has at most one such interval and an Ongoing_Count of 0 or 1.
C18_OngoingIsLastEvent ==
    Ran =>
      /\ \A d \in Devices :
           LET mine == EventsOf(call.events, d)
               rows == IntervalsOf(call.df_downtime, d)
           IN  /\ Cardinality(OngoingOf(d)) <= 1
               /\ \A k \in OngoingOf(d) :
                    /\ call.df_downtime[k].Online_Time = NaT
                    /\ mine[Len(mine)].status = "offline"
                    /\ mine[Len(mine)].time = call.df_downtime[k].Offline_Time
                    /\ \A i \in 1..Len(mine) : mine[i].time <= call.df_downtime[k].Offline_Time
                    /\ rows[Len(rows)] = call.df_downtime[k]
      /\ \A k \in 1..Len(call.agg) : call.agg[k].Ongoing_Count \in {0, 1}

\* C18 witness: a device with an Ongoing interval after earlier events, and
\* the count of 1 in its summary row.
C18_Witness_OngoingAfterOthers ==
    /\ Ran
    /\ \E d \in Devices :
         /\ OngoingOf(d) # {}
         /\ Len(EventsOf(call.events, d)) = MaxRows
         /\ Len(IntervalsOf(call.df_downtime, d)) >= 2
         /\ \E k \in 1..Len(call.agg) :
              call.agg[k].Device = d /\ call.agg[k].Ongoing_Count = 1

\* The rows of a returned table that are about one device.
RowsAbout(frame, d) == {k \in 1..Len(frame.rows) : frame.rows[k].Device = d}

\* C19: the two tables process_data returns are both empty, or both are
\* non-empty and the summary has one row for each device of the interval
\* table and none for another device; also when a step of the run failed or
\* no offline event was in range.
C19_TablesConsistent ==
    Ran =>
      \/ IsEmpty(call.summary) /\ IsEmpty(call.downtime)
      \/ /\ ~IsEmpty(call.summary) /\ ~IsEmpty(call.downtime)
         /\ \A d \in Devices :
              Cardinality(RowsAbout(call.summary, d)) =
                (IF RowsAbout(call.downtime, d) # {} THEN 1 ELSE 0)

\* C19 witness: a run that had built the intervals and the summary rows of
\* two devices when a step failed, and returned two empty tables.
C19_Witness_FailedStep ==
    /\ call.exit = "error"
    /\ Len(call.agg) = 2
    /\ Len(call.df_downtime) = MaxRows
    /\ IsEmpty(call.summary) /\ IsEmpty(call.downtime)

ClaimTotalPeriod ==
    call.analysis_time - Min({call.df_downtime[k].Offline_Time : k \in 1..Len(call.df_downtime)})

\* C21: every device with an interval has a row in the summary process_data
\* returns, whose MTBF is 0 when the device has one event and otherwise
\* (total period - total downtime) / (events - 1), in hundredths of an hour.
C21_MtbfDefined ==
    Ran =>
      \A k \in 1..Len(call.agg) :
        \E j \in 1..Len(call.summary.rows) :
          /\ call.summary.rows[j].Device = call.agg[k].Device
          /\ call.summary.rows[j].Total_Events = call.agg[k].Total_Events
          /\ call.summary.rows[j].MTBF_Hours =
               (IF call.agg[k].Total_Events <= 1 THEN 0
                ELSE RoundDiv((ClaimTotalPeriod - Sec(call.agg[k].Total_Downtime_Seconds)) * 100,
                              Sec(SecsPerHour) * (call.agg[k].Total_Events - 1)))

\* No in-range event is later than the reference time.
NoEventAfterReference ==
    \A i \in 1..Len(call.events) : call.events[i].time <= call.analysis_time

\* C22: when no in-range event is later than the reference time, the total
\* downtime of every device of the summary is at least 0 and at most the
\* total period, and in the summary process_data returns the uptime is
\* between 0 and 100 percent and the MTBF is not negative.
C22_DowntimeWithinPeriod ==
    (Ran /\ call.agg # <<>> /\ NoEventAfterReference) =>
      /\ \A k \in 1..Len(call.agg) :
           /\ call.agg[k].Total_Downtime_Seconds >= 0
           /\ Sec(call.agg[k].Total_Downtime_Seconds) <= ClaimTotalPeriod
      /\ \A j \in 1..Len(call.summary.rows) :
           /\ call.summary.rows[j].Uptime_Percentage >= 0
           /\ call.summary.rows[j].Uptime_Percentage <= 100 * 100
           /\ call.summary.rows[j].MTBF_Hours >= 0

====
